---- MODULE Spec2Model ----
(***************************************************************************)
(* Model of the NoteTube transcript API (src/main.py): the URL parser      *)
(* extract_video_id, the XML fallback fetch_timedtext, the fallback chain  *)
(* fetch_youtube_transcript and the POST /transcript handler               *)
(* get_transcript.                                                         *)
(*                                                                         *)
(* Python strings that the code inspects character by character (URLs,     *)
(* video ids) are sequences of one-character strings; strings that are     *)
(* only joined or compared (caption text, tags, messages) are TLA+         *)
(* strings.  A Python expression that may raise is modelled by a record    *)
(* with kind "return" or "raise".                                          *)
(***************************************************************************)
EXTENDS Integers, Sequences, FiniteSets, TLC

VARIABLES
    pc,        \* position of the request: idle, handler, api, loop, translated, respond, done
    body,      \* the request body as received
    vid,       \* video id extracted by the handler (line 80)
    apiCalls,  \* number of calls of YouTubeTranscriptApi.get_transcript
    apiOut,    \* what the retrieval capability did (its outcome, an input)
    langIdx,   \* index of the next language of the fallback loop (line 59)
    fetches,   \* the XML fetches issued so far, in order, each with the text it returned
    fret,      \* how fetch_youtube_transcript ended: a returned triple or a raised exception
    response,  \* the HTTP response of the handler
    purl,      \* parser specification: the input string of extract_video_id
    pvid,      \* parser specification: the value extract_video_id returned
    ppc        \* parser specification: "in" before the call, "out" after it ("idle": no call)

vars == <<pc, body, vid, apiCalls, apiOut, langIdx, fetches, fret, response, purl, pvid, ppc>>

(***************************************************************************)
(* Bounds of the model.                                                    *)
(***************************************************************************)
\* longest segment sequence the retrieval capability returns
MaxSegs == 2
\* most child elements of an XML caption document
MaxElems == 2
\* most fragments concatenated into an input string of the parser
MaxFrags == 5

(***************************************************************************)
(* Python values.                                                          *)
(***************************************************************************)
\* an optional TLA+ string: None or a str
None == [some |-> FALSE, s |-> ""]
Some(x) == [some |-> TRUE, s |-> x]
\* Python truthiness of None-or-str (`if text`, `not text`, `if tlang`)
Truthy(o) == o.some /\ o.s # ""

\* an optional character sequence: None or a str (re match group)
NoMatch == [some |-> FALSE, s |-> <<>>]
Match(cs) == [some |-> TRUE, s |-> cs]

\* outcome of a Python expression or block
Return(x) == [kind |-> "return", val |-> x, exc |-> "", msg |-> ""]
Raise(e, m, x) == [kind |-> "raise", val |-> x, exc |-> e, msg |-> m]

\* " ".join(xs) for a sequence of TLA+ strings
RECURSIVE Join(_)
Join(xs) ==
    IF Len(xs) = 0 THEN ""
    ELSE IF Len(xs) = 1 THEN xs[1]
    ELSE xs[1] \o " " \o Join(Tail(xs))

\* all sequences of length at most n over the set S
RECURSIVE SeqsUpTo(_, _)
SeqsUpTo(S, n) ==
    IF n = 0 THEN {<<>>}
    ELSE LET shorter == SeqsUpTo(S, n - 1)
         IN shorter \cup {Append(q, x) : q \in {r \in shorter : Len(r) = n - 1}, x \in S}

(***************************************************************************)
(* extract_video_id (lines 15-17).                                         *)
(***************************************************************************)
\* the character class [0-9A-Za-z_-]
IdChars ==
    {"0","1","2","3","4","5","6","7","8","9",
     "A","B","C","D","E","F","G","H","I","J","K","L","M",
     "N","O","P","Q","R","S","T","U","V","W","X","Y","Z",
     "a","b","c","d","e","f","g","h","i","j","k","l","m",
     "n","o","p","q","r","s","t","u","v","w","x","y","z",
     "_","-"}

\* the repetition count {11}
IdLen == 11

\* the two alternatives of the non-capturing group (?:v=|youtu\.be/), in order
Prefixes == << <<"v","=">>, <<"y","o","u","t","u",".","b","e","/">> >>

\* the literal p occurs in url starting at position i
HasAt(url, i, p) ==
    /\ i + Len(p) - 1 <= Len(url)
    /\ \A k \in 1..Len(p) : url[i + k - 1] = p[k]

\* ([0-9A-Za-z_-]{11}) matches at position j
GroupAt(url, j) ==
    /\ j + IdLen - 1 <= Len(url)
    /\ \A k \in 0..(IdLen - 1) : url[j + k] \in IdChars

\* the pattern matched at start position i: the group, or NoMatch
MatchAt(url, i) ==
    IF HasAt(url, i, Prefixes[1]) /\ GroupAt(url, i + Len(Prefixes[1]))
    THEN Match(SubSeq(url, i + Len(Prefixes[1]), i + Len(Prefixes[1]) + IdLen - 1))
    ELSE IF HasAt(url, i, Prefixes[2]) /\ GroupAt(url, i + Len(Prefixes[2]))
    THEN Match(SubSeq(url, i + Len(Prefixes[2]), i + Len(Prefixes[2]) + IdLen - 1))
    ELSE NoMatch

\* re.search: try every start position from the left
RECURSIVE SearchFrom(_, _)
SearchFrom(url, i) ==
    IF i > Len(url) THEN NoMatch
    ELSE IF MatchAt(url, i).some THEN MatchAt(url, i)
    ELSE SearchFrom(url, i + 1)

\* mutant: re.match in place of re.search (anchored at the start)
extract_video_id_anchored(url) == MatchAt(url, 1)

\* m.group(1) if m else None
extract_video_id(url) == SearchFrom(url, 1)

(***************************************************************************)
(* The request body and request.get_json(silent=True) (line 77).           *)
(***************************************************************************)
\* a JSON value held in the `url` field
JVal(t, v) == [t |-> t, v |-> v]
\* a JSON value received as the body; keys and url describe an object
JBody(t, v) == [t |-> t, v |-> v, keys |-> {}, url |-> JVal("None", <<>>)]
JObject(keys, u) == [t |-> "dict", v |-> <<>>, keys |-> keys, url |-> u]

ID1 == <<"d","Q","w","4","w","9","W","g","X","c","Q">>
ID2 == <<"A","A","A","A","A","A","A","A","A","A","A">>
UrlWatch == <<"?">> \o Prefixes[1] \o ID1
UrlShort == Prefixes[2] \o ID2 \o <<"&">> \o Prefixes[1] \o ID1
UrlNot == <<"n","o","t"," ","a"," ","u","r","l">>

\* values of the `url` field: strings, and the non-string JSON types
UrlValues ==
    {JVal("str", UrlWatch), JVal("str", UrlShort), JVal("str", UrlNot), JVal("str", <<>>),
     JVal("int", <<"5">>), JVal("None", <<>>), JVal("bool", <<"true">>),
     JVal("list", <<"v=dQw4w9WgXcQ">>)}

\* JSON values of every type, with and without a `url` field
JsonValues ==
    {JBody("None", <<>>),
     JBody("bool", <<"true">>), JBody("bool", <<"false">>),
     JBody("int", <<"0">>), JBody("int", <<"5">>),
     JBody("str", <<>>), JBody("str", <<"h","i">>), JBody("str", UrlNot),
     JBody("list", <<>>), JBody("list", <<"x">>), JBody("list", <<"url">>),
     JObject({}, JVal("None", <<>>)), JObject({"other"}, JVal("None", <<>>))}
    \cup {JObject({"url"}, u) : u \in UrlValues}
    \cup {JObject({"url", "other"}, JVal("str", UrlWatch))}

\* the bodies a request may carry
Bodies ==
    {[form |-> "missing", json |-> JBody("None", <<>>)],
     [form |-> "unparseable", json |-> JBody("None", <<>>)]}
    \cup {[form |-> "json", json |-> j] : j \in JsonValues}

NoBody == [form |-> "missing", json |-> JBody("None", <<>>)]

\* silent=True: None when the body is missing or does not parse
get_json(b) == IF b.form = "json" THEN b.json ELSE JBody("None", <<>>)

\* Python truthiness of a JSON value (`not payload`)
JTruthy(p) ==
    CASE p.t = "None" -> FALSE
      [] p.t = "bool" -> p.v = <<"true">>
      [] p.t = "int"  -> p.v # <<"0">>
      [] p.t = "str"  -> p.v # <<>>
      [] p.t = "list" -> p.v # <<>>
      [] p.t = "dict" -> p.keys # {}

\* `"url" in payload` is defined for str, list and dict; TypeError otherwise
SupportsIn(p) == p.t \in {"str", "list", "dict"}

\* `"url" in payload`: substring of a str, element of a list, key of a dict
UrlIn(p) ==
    CASE p.t = "str"  -> \E i \in 1..Len(p.v) : HasAt(p.v, i, <<"u","r","l">>)
      [] p.t = "list" -> \E i \in 1..Len(p.v) : p.v[i] = "url"
      [] p.t = "dict" -> "url" \in p.keys

(***************************************************************************)
(* HTTP responses of the handler (lines 79, 82, 85-104).                   *)
(***************************************************************************)
NoResponse ==
    [status |-> 0, ctype |-> "", text |-> "", error |-> "", source |-> "",
     transcript |-> None, language_code |-> None]
PlainResponse(status, text) ==
    [status |-> status, ctype |-> "text/html", text |-> text, error |-> "", source |-> "",
     transcript |-> None, language_code |-> None]
ErrorResponse(status, error, source) ==
    [status |-> status, ctype |-> "application/json; charset=utf-8", text |-> "",
     error |-> error, source |-> source, transcript |-> None, language_code |-> None]
OkResponse(text, lang, src) ==
    [status |-> 200, ctype |-> "application/json; charset=utf-8", text |-> "",
     error |-> "", source |-> src, transcript |-> text, language_code |-> lang]

\* lines 77-82 of the try body: a response, a raised exception, or the video id
HandlerHead(b) ==
    LET payload == get_json(b) IN
    IF ~JTruthy(payload) THEN Return([resp |-> PlainResponse(400, "Missing YouTube URL"), vid |-> NoMatch])
    ELSE IF ~SupportsIn(payload)
    THEN Raise("TypeError", "argument of type is not iterable", [resp |-> NoResponse, vid |-> NoMatch])
    ELSE IF ~UrlIn(payload) THEN Return([resp |-> PlainResponse(400, "Missing YouTube URL"), vid |-> NoMatch])
    ELSE IF payload.t # "dict"
    THEN Raise("TypeError", "indices must be integers", [resp |-> NoResponse, vid |-> NoMatch])
    ELSE IF payload.url.t # "str"
    THEN Raise("TypeError", "expected string or bytes-like object", [resp |-> NoResponse, vid |-> NoMatch])
    ELSE LET v == extract_video_id(payload.url.v) IN
         IF ~v.some THEN Return([resp |-> PlainResponse(400, "Invalid YouTube URL"), vid |-> NoMatch])
         ELSE Return([resp |-> NoResponse, vid |-> v])

(***************************************************************************)
(* The caption-XML endpoint and fetch_timedtext (lines 22-44).             *)
(***************************************************************************)
\* a child element of the document root: its tag and its text (None when empty)
Elements ==
    {[tag |-> "text", text |-> Some("Hello")],
     [tag |-> "text", text |-> Some("world")],
     [tag |-> "text", text |-> None],
     [tag |-> "p",    text |-> Some("zzz")]}

\* response bodies: empty, whitespace only, not well-formed, or an XML document
XmlBodies ==
    {[form |-> f, children |-> <<>>] : f \in {"empty", "blank", "malformed"}}
    \cup {[form |-> "xml", children |-> c] : c \in SeqsUpTo(Elements, MaxElems)}

\* what requests.get does: raises, or returns a response with a status and a body
XmlOutcomes ==
    {Raise(e, "network", [status |-> 0, body |-> [form |-> "empty", children |-> <<>>]])
        : e \in {"ConnectionError", "Timeout"}}
    \cup {Return([status |-> st, body |-> b]) : st \in {200, 404, 500}, b \in XmlBodies}

\* the request of lines 25-27: tlang is appended only when it is truthy
timedtext_url(video_id, lang, tlang) ==
    [v |-> video_id, lang |-> lang, tlang |-> IF Truthy(tlang) THEN tlang ELSE None]

\* not r.text.strip()
StripsToEmpty(b) == b.form \in {"empty", "blank"}

\* [t.text for t in root.findall("text") if t.text]
TextLines(children) ==
    LET keep(c) == c.tag = "text" /\ Truthy(c.text)
        kept == SelectSeq(children, keep)
    IN [i \in 1..Len(kept) |-> kept[i].text.s]

\* lines 25-41, the body of the try: returns None or the joined text, or raises
TimedtextBody(net) ==
    IF net.kind = "raise" THEN Raise(net.exc, net.msg, None)
    ELSE IF net.val.status # 200 \/ StripsToEmpty(net.val.body) THEN Return(None)
    ELSE IF net.val.body.form = "malformed" THEN Raise("ParseError", "syntax error", None)
    ELSE LET lines == TextLines(net.val.body.children) IN
         Return(IF Len(lines) > 0 THEN Some(Join(lines)) ELSE None)

\* mutant: the try/except of lines 24 and 42-44 left out
fetch_timedtext_noexcept(net) == TimedtextBody(net)

\* lines 24-44: every exception of the body becomes None
fetch_timedtext(net) ==
    LET r == TimedtextBody(net) IN
    IF r.kind = "raise" THEN Return(None) ELSE r

(***************************************************************************)
(* The retrieval capability and fetch_youtube_transcript (lines 49-69).    *)
(***************************************************************************)
languages == <<"en", "en-US", "hi", "fr", "es", "de", "ne", "zh-Hans", "zh-Hant">>

\* a result triple (text, lang, source tag)
Triple(text, lang, src) == [text |-> text, lang |-> lang, src |-> src]
NoTriple == Triple(None, None, None)

\* caption segments: a text, and a language tag that may be missing
Segments ==
    {[text |-> t, language |-> l] : t \in {"", "Hello", "world"}, l \in {None, Some("hi")}}

\* the three "no captions" signals of line 57
NoCaptionsExc == {"TranscriptsDisabled", "NoTranscriptFound", "CouldNotRetrieveTranscript"}
\* other exceptions the capability may raise
OtherExc == {"ConnectionError", "AttributeError"}

\* what get_transcript does: returns a segment sequence or raises
ApiOutcomes ==
    {Return(d) : d \in SeqsUpTo(Segments, MaxSegs)}
    \cup {Raise(e, "no captions", <<>>) : e \in NoCaptionsExc}
    \cup {Raise(e, "boom", <<>>) : e \in OtherExc}
NoApiOutcome == Raise("", "", <<>>)

\* lines 53-56, the body of the try: the primary-API triple, or an exception
TryBody(out) ==
    IF out.kind = "raise" THEN Raise(out.exc, out.msg, NoTriple)
    ELSE LET data == out.val
             text == Join([i \in 1..Len(data) |-> data[i].text])
         IN IF Len(data) = 0 THEN Raise("IndexError", "list index out of range", NoTriple)
            ELSE Return(Triple(Some(text),
                               IF data[1].language.some THEN data[1].language ELSE Some("unknown"),
                               Some("YouTubeTranscriptAPI")))

\* mutant: every exception of the try body starts the fallback
FallsBack_any(exc) == TRUE

\* line 57: the except clause that starts the fallback
FallsBack(exc) == exc \in NoCaptionsExc

\* mutant: no `except Exception` clause, the exception propagates
OnOtherException_propagate(r) == r

\* lines 67-69: any other exception becomes an error triple
OnOtherException(r) == Return(Triple(None, None, Some("Error: " \o r.msg)))

\* mutant: the loop does not stop at a language with text
LoopHit_never(text) == FALSE

\* line 61: `if text`
LoopHit(text) == Truthy(text)

\* mutant: the translated attempt made without the target language
TranslatedRequest_notlang(video_id) == timedtext_url(video_id, "auto", None)

\* line 63: the translated attempt asks for source "auto" and target "en"
TranslatedRequest(video_id) == timedtext_url(video_id, "auto", Some("en"))

(***************************************************************************)
(* The request as a state machine.                                         *)
(***************************************************************************)
Init ==
    /\ pc = "idle"
    /\ body = NoBody
    /\ vid = NoMatch
    /\ apiCalls = 0
    /\ apiOut = NoApiOutcome
    /\ langIdx = 1
    /\ fetches = <<>>
    /\ fret = Return(NoTriple)
    /\ response = NoResponse
    /\ purl = <<>>
    /\ pvid = NoMatch
    /\ ppc = "idle"

\* a POST /transcript request arrives
Request(b) ==
    /\ pc = "idle"
    /\ body' = b
    /\ pc' = "handler"
    /\ UNCHANGED <<vid, apiCalls, apiOut, langIdx, fetches, fret, response, purl, pvid, ppc>>

\* get_transcript, lines 76-82 and the except of lines 98-104
Validate ==
    /\ pc = "handler"
    /\ LET h == HandlerHead(body) IN
       IF h.kind = "raise"
       THEN /\ response' = ErrorResponse(500, h.msg, "ServerError")
            /\ pc' = "done"
            /\ vid' = vid
       ELSE IF h.val.vid.some
       THEN /\ vid' = h.val.vid
            /\ pc' = "api"
            /\ response' = response
       ELSE /\ response' = h.val.resp
            /\ pc' = "done"
            /\ vid' = vid
    /\ UNCHANGED <<body, apiCalls, apiOut, langIdx, fetches, fret, purl, pvid, ppc>>

\* fetch_youtube_transcript, lines 51-58 and 67-69: the call of the capability
CallApi(out) ==
    /\ pc = "api"
    /\ apiCalls' = apiCalls + 1
    /\ apiOut' = out
    /\ LET r == TryBody(out) IN
       IF r.kind = "return"
       THEN fret' = r /\ pc' = "respond"
       ELSE IF FallsBack(r.exc)
       THEN fret' = fret /\ pc' = "loop"
       ELSE fret' = OnOtherException(r) /\ pc' = "respond"
    /\ UNCHANGED <<body, vid, langIdx, fetches, response, purl, pvid, ppc>>

\* one iteration of the loop of lines 59-62
FetchLang(net) ==
    /\ pc = "loop"
    /\ LET lang == languages[langIdx]
           r == fetch_timedtext(net)
       IN /\ fetches' = Append(fetches, [req |-> timedtext_url(vid, lang, None),
                                         text |-> IF r.kind = "return" THEN r.val ELSE None])
          /\ IF r.kind = "raise"
             THEN /\ fret' = Raise(r.exc, r.msg, NoTriple)
                  /\ pc' = "respond"
                  /\ langIdx' = langIdx
             ELSE IF LoopHit(r.val)
             THEN /\ fret' = Return(Triple(r.val, Some(lang), Some("YouTubeTimedText")))
                  /\ pc' = "respond"
                  /\ langIdx' = langIdx
             ELSE IF langIdx < Len(languages)
             THEN /\ langIdx' = langIdx + 1
                  /\ pc' = "loop"
                  /\ fret' = fret
             ELSE /\ langIdx' = langIdx
                  /\ pc' = "translated"
                  /\ fret' = fret
    /\ UNCHANGED <<body, vid, apiCalls, apiOut, response, purl, pvid, ppc>>

\* lines 63-66: the translated attempt and the exhaustion result
FetchTranslated(net) ==
    /\ pc = "translated"
    /\ LET r == fetch_timedtext(net)
       IN /\ fetches' = Append(fetches, [req |-> TranslatedRequest(vid),
                                         text |-> IF r.kind = "return" THEN r.val ELSE None])
          /\ fret' = IF r.kind = "raise" THEN Raise(r.exc, r.msg, NoTriple)
                     ELSE IF Truthy(r.val)
                     THEN Return(Triple(r.val, Some("auto→en"), Some("YouTubeTimedTextTranslated")))
                     ELSE Return(Triple(None, None, Some("YouTubeRequestFailed")))
    /\ pc' = "respond"
    /\ UNCHANGED <<body, vid, apiCalls, apiOut, langIdx, response, purl, pvid, ppc>>

\* get_transcript, lines 83-97 and the except of lines 98-104
Respond ==
    /\ pc = "respond"
    /\ response' =
         IF fret.kind = "raise" THEN ErrorResponse(500, fret.msg, "ServerError")
         ELSE IF ~Truthy(fret.val.text)
         THEN ErrorResponse(404, "Transcript not available", fret.val.src.s)
         ELSE OkResponse(fret.val.text, fret.val.lang, fret.val.src.s)
    /\ pc' = "done"
    /\ UNCHANGED <<body, vid, apiCalls, apiOut, langIdx, fetches, fret, purl, pvid, ppc>>

Next ==
    \/ \E b \in Bodies : Request(b)
    \/ Validate
    \/ \E out \in ApiOutcomes : CallApi(out)
    \/ \E net \in XmlOutcomes : FetchLang(net)
    \/ \E net \in XmlOutcomes : FetchTranslated(net)
    \/ Respond

Spec == Init /\ [][Next]_vars

(***************************************************************************)
(* The parser alone: extract_video_id applied to bounded input strings.    *)
(***************************************************************************)
\* pieces of input strings: the two prefixes, a prefix with the dot replaced,
\* two ids, a run of five id characters, and a character outside the class
Fragments ==
    {Prefixes[1], Prefixes[2], <<"y","o","u","t","u","x","b","e","/">>,
     ID1, ID2, <<"a","_","-","0","Z">>, <<"&">>}

RECURSIVE Concat(_)
Concat(fs) == IF Len(fs) = 0 THEN <<>> ELSE fs[1] \o Concat(Tail(fs))

\* every concatenation of at most MaxFrags fragments
Urls == {Concat(fs) : fs \in SeqsUpTo(Fragments, MaxFrags)}

InitP ==
    /\ pc = "idle"
    /\ body = NoBody
    /\ vid = NoMatch
    /\ apiCalls = 0
    /\ apiOut = NoApiOutcome
    /\ langIdx = 1
    /\ fetches = <<>>
    /\ fret = Return(NoTriple)
    /\ response = NoResponse
    /\ purl \in Urls
    /\ pvid = NoMatch
    /\ ppc = "in"

\* the call extract_video_id(url)
Extract ==
    /\ ppc = "in"
    /\ pvid' = extract_video_id(purl)
    /\ ppc' = "out"
    /\ UNCHANGED <<pc, body, vid, apiCalls, apiOut, langIdx, fetches, fret, response, purl>>

NextP == Extract

SpecParser == InitP /\ [][NextP]_vars

(***************************************************************************)
(* Properties.                                                             *)
(***************************************************************************)
\* the fetcher has ended (its result is with the handler)
FetcherEnded == pc \in {"respond", "done"} /\ apiCalls > 0
\* the capability signalled one of the three "no captions" conditions
NoCaptionsSignalled == apiCalls > 0 /\ apiOut.kind = "raise" /\ apiOut.exc \in NoCaptionsExc
\* the capability raised an exception that is none of the three
UnexpectedRaised == apiCalls > 0 /\ apiOut.kind = "raise" /\ apiOut.exc \in OtherExc
\* the capability returned a segment sequence
ApiSucceeded == apiCalls > 0 /\ apiOut.kind = "return"

SuccessTags == {"YouTubeTranscriptAPI", "YouTubeTimedText", "YouTubeTimedTextTranslated"}
\* the tags "Error: <message>" for the messages of the model
ErrorTags == {"Error: " \o m : m \in {"boom", "no captions", "list index out of range", "network", "syntax error"}}
FailureTags == {"YouTubeRequestFailed"} \cup ErrorTags

\* C1: fetch_youtube_transcript never lets an exception escape: whatever the
\* capability and the XML fetches do, no exception leaves the fetcher, and when
\* it has ended it has returned a (text, language, source tag) triple.
C1_NeverRaises ==
    /\ fret.kind = "return"
    /\ FetcherEnded => fret.val.src.some

\* C1 witness: the capability returned the empty sequence (data[0] raises
\* IndexError inside the try) and the fetcher has ended.
C1_Witness ==
    /\ pc = "respond"
    /\ ApiSucceeded /\ apiOut.val = <<>>
    /\ fret.val.src = Some("Error: list index out of range")

\* the JSON value has a `url` field
HasUrlField(j) == j.t = "dict" /\ "url" \in j.keys

\* C2 (as claimed): a request whose body is missing, unparseable, or a JSON
\* value of any type without a `url` field is answered 400 "Missing YouTube
\* URL", and neither the capability nor the XML endpoint is called.
C2_MissingUrlIs400 ==
    (pc = "done" /\ (body.form # "json" \/ ~HasUrlField(body.json)))
        => /\ response = PlainResponse(400, "Missing YouTube URL")
           /\ apiCalls = 0
           /\ fetches = <<>>

\* C3 (as claimed): a request whose JSON body has a `url` field from which no
\* video id can be extracted, whatever the type of its value, is answered 400
\* "Invalid YouTube URL" and the fetcher is not invoked.
C3_InvalidUrlIs400 ==
    (/\ pc = "done"
     /\ body.form = "json" /\ HasUrlField(body.json)
     /\ (body.json.url.t # "str" \/ ~extract_video_id(body.json.url.v).some))
        => /\ response = PlainResponse(400, "Invalid YouTube URL")
           /\ apiCalls = 0
           /\ fetches = <<>>

\* C4 (as claimed): whenever the capability succeeds, with a segment sequence of
\* any length including the empty one, the fetcher returns the segment texts
\* joined by single spaces with the tag "YouTubeTranscriptAPI", and no XML
\* fetch is issued.
C4_PrimarySuccess ==
    (FetcherEnded /\ ApiSucceeded)
        => /\ fret.kind = "return"
           /\ fret.val.text = Some(Join([i \in 1..Len(apiOut.val) |-> apiOut.val[i].text]))
           /\ fret.val.src = Some("YouTubeTranscriptAPI")
           /\ fetches = <<>>

\* start positions and group positions of the occurrences of `v=` or
\* `youtu.be/` followed by 11 characters of the class
Occurrences(url) ==
    {o \in (1..Len(url)) \X {2, 9} :
        /\ o[1] + o[2] + 10 <= Len(url)
        /\ SubSeq(url, o[1], o[1] + o[2] - 1) \in
               {<<"v","=">>, <<"y","o","u","t","u",".","b","e","/">>}
        /\ \A k \in (o[1] + o[2])..(o[1] + o[2] + 10) : url[k] \in IdChars}
Leftmost(occ) == CHOOSE o \in occ : \A q \in occ : o[1] <= q[1]

\* C5: for every input string containing `v=` or `youtu.be/` immediately
\* followed by 11 characters of [0-9A-Za-z_-], extract_video_id returns exactly
\* the 11 characters following the leftmost such occurrence; for every other
\* string it returns None.
C5_ParserContract ==
    ppc = "out" =>
        LET occ == Occurrences(purl) IN
        IF occ = {} THEN pvid = NoMatch
        ELSE LET o == Leftmost(occ) IN
             /\ pvid.some
             /\ Len(pvid.s) = 11
             /\ pvid.s = [k \in 1..11 |-> purl[o[1] + o[2] + k - 1]]

\* C5 witness: the parser has returned for a string with two occurrences that
\* carry different ids, the leftmost of them not at the start of the string.
C5_Witness ==
    /\ ppc = "out" /\ pvid.some
    /\ \E o, q \in Occurrences(purl) :
          /\ 1 < o[1] /\ o[1] < q[1]
          /\ SubSeq(purl, o[1] + o[2], o[1] + o[2] + 10) # SubSeq(purl, q[1] + q[2], q[1] + q[2] + 10)

\* C6 (as claimed): in every triple the fetcher returns the source tag is
\* present, the text is non-empty exactly when the tag is a success tag and
\* absent exactly when it is a failure tag; so every 404 response carries a
\* failure tag.
C6_TextAndTagTogether ==
    /\ (FetcherEnded /\ fret.kind = "return")
          => /\ fret.val.src.some
             /\ Truthy(fret.val.text) <=> fret.val.src.s \in SuccessTags
             /\ ~fret.val.text.some <=> fret.val.src.s \in FailureTags
    /\ (pc = "done" /\ response.status = 404) => response.source \in FailureTags

\* C7: for every request whose `url` yields a video id the response status is
\* 200 or 404, whatever the capability and the XML fetches do.
C7_NoUpstream500 ==
    (pc = "done" /\ vid.some) => response.status \in {200, 404}

\* C7 witness: a request with a video id has been answered after an unexpected
\* exception of the capability.
C7_Witness ==
    /\ pc = "done" /\ vid.some
    /\ UnexpectedRaised
    /\ response.status = 404

\* C8: after a "no captions" signal the XML fetches are issued in the order of
\* the language list, each language at most once; a language without result is
\* followed by the next one; the loop stops at the first language with
\* non-empty text, and the result is (that text, that language,
\* "YouTubeTimedText").
C8_LanguageLoop ==
    NoCaptionsSignalled =>
        /\ Len(fetches) <= Len(languages) + 1
        /\ \A i \in 1..Len(fetches) : i <= Len(languages) =>
               fetches[i].req = [v |-> vid, lang |-> languages[i], tlang |-> None]
        /\ \A i, j \in 1..Len(fetches) : i < j => ~Truthy(fetches[i].text)
        /\ pc = "loop" => langIdx = Len(fetches) + 1
        /\ FetcherEnded =>
               /\ Len(fetches) >= 1
               /\ ~Truthy(fetches[Len(fetches)].text) => Len(fetches) = Len(languages) + 1
               /\ \A i \in 1..Len(fetches) :
                     (i <= Len(languages) /\ Truthy(fetches[i].text)) =>
                         fret = Return(Triple(fetches[i].text, Some(languages[i]),
                                              Some("YouTubeTimedText")))

\* C8 witness: the fetcher ended at the third language, the two before it
\* having yielded nothing.
C8_Witness ==
    /\ NoCaptionsSignalled /\ FetcherEnded
    /\ Len(fetches) = 3
    /\ fetches[3].text = Some("Hello world")
    /\ fret.val.lang = Some("hi")

\* the first n fetches are the languages in order, all without result
LoopExhausted(n) ==
    /\ Len(fetches) >= n
    /\ \A i \in 1..n : ~Truthy(fetches[i].text) /\ ~fetches[i].req.tlang.some

\* C9: after a "no captions" signal, when all nine language fetches yield
\* nothing exactly one translated attempt (auto, en) is issued, after them and
\* before any result is reported; exhaustion is reported only if it yields
\* nothing too, otherwise the result is (text, "auto→en",
\* "YouTubeTimedTextTranslated"); no translated attempt is issued when a
\* language yielded text.
C9_TranslatedAttempt ==
    NoCaptionsSignalled =>
        /\ \A i \in 1..Len(fetches) : fetches[i].req.tlang.some =>
               /\ i = Len(languages) + 1
               /\ fetches[i].req = [v |-> vid, lang |-> "auto", tlang |-> Some("en")]
               /\ LoopExhausted(Len(languages))
        /\ (\E i \in 1..Len(fetches) : ~fetches[i].req.tlang.some /\ Truthy(fetches[i].text))
               => \A j \in 1..Len(fetches) : ~fetches[j].req.tlang.some
        /\ FetcherEnded =>
               /\ LoopExhausted(Len(languages)) =>
                     /\ Len(fetches) = Len(languages) + 1
                     /\ fetches[Len(fetches)].req.tlang.some
                     /\ fret = IF Truthy(fetches[Len(fetches)].text)
                               THEN Return(Triple(fetches[Len(fetches)].text, Some("auto→en"),
                                                  Some("YouTubeTimedTextTranslated")))
                               ELSE Return(Triple(None, None, Some("YouTubeRequestFailed")))
               /\ fret.val.src = Some("YouTubeRequestFailed") =>
                     /\ Len(fetches) = Len(languages) + 1
                     /\ \A i \in 1..Len(fetches) : ~Truthy(fetches[i].text)

\* C9 witness: all nine languages yielded nothing and the translated attempt
\* yielded text.
C9_Witness ==
    /\ NoCaptionsSignalled /\ FetcherEnded
    /\ LoopExhausted(Len(languages))
    /\ Len(fetches) = Len(languages) + 1
    /\ fret.val.src = Some("YouTubeTimedTextTranslated")

\* C10 (as claimed): when the capability raises an unexpected exception the
\* fallback chain continues: XML fetches are attempted for that request.
C10_FallbackContinues ==
    (FetcherEnded /\ UnexpectedRaised) => Len(fetches) >= 1

\* C10 (amended): when the capability raises an unexpected exception it is
\* caught and is terminal: the fetcher returns (None, None, "Error: <message>")
\* at once, no XML fetch is issued, and the handler answers 404 with that tag.
C10_UnexpectedIsTerminal ==
    UnexpectedRaised =>
        /\ FetcherEnded
        /\ fret = Return(Triple(None, None, Some("Error: " \o apiOut.msg)))
        /\ fetches = <<>>
        /\ pc = "done" => response = ErrorResponse(404, "Transcript not available",
                                                   "Error: " \o apiOut.msg)

\* C10 witness: the request has been answered after an unexpected exception.
C10_Witness ==
    /\ pc = "done"
    /\ UnexpectedRaised
    /\ response.source = "Error: boom"

====
